---- MODULE Spec2Model ----
(***************************************************************************)
(* Model of the book-processing pipeline of app/worker/tasks.py and its    *)
(* HTTP entry points in app/api/v1/endpoints/books.py.                     *)
(*                                                                         *)
(* The record store (supabase), the object storage (requests), the PDF     *)
(* library (fitz) and the vision model (OpenAI) are external: every call   *)
(* to one of them either returns or raises, chosen nondeterministically.   *)
(* A store call that raises leaves the store unchanged.                    *)
(*                                                                         *)
(* Python strings are modelled as sequences of tokens, an f-string as the  *)
(* concatenation of its parts; None is the empty tuple, a present value x  *)
(* is <<x>>.                                                               *)
(***************************************************************************)
EXTENDS Integers, Sequences, FiniteSets, Bags, TLC

\* ------------------------------------------------------------------ bounds

\* Largest number of pages a PDF container reports.
MaxPages == 2
\* Number of POST /process submissions (process_book tasks) over a behaviour.
MaxJobs == 2
\* Number of GET /status requests (get_book_status tasks) over a behaviour.
MaxQueries == 1

JobIds == 1..MaxJobs
QueryIds == 1..MaxQueries

\* Ids a client may name; only those in Existing have a row in 'books'.
BookIds == {"b1", "b2"}
Existing == {"b1"}
\* The worker pool of the queue.
Workers == {"w1", "w2"}

VARIABLES
    books,          \* table 'books': id -> row, for the ids that have a row
    book_contents,  \* table 'book_contents': the bag of its rows (ids and timestamps left out)
    queue,          \* the broker's FIFO of task messages
    running,        \* the tasks the workers of the pool are executing
    runs,           \* process_book task -> its frame (position, locals, result)
    queries,        \* get_book_status request -> its frame
    fetched         \* one call of get_pdf_content on its own: the response and the result

vars == <<books, book_contents, queue, running, runs, queries, fetched>>

\* ------------------------------------------------------------ python values

None == <<>>
Some(x) == <<x>>

\* dict.get(key): None when the key is absent
DictGet(d, k) == IF k \in DOMAIN d THEN d[k] ELSE None

\* x or y, for x a string or None
Or(x, y) == IF x = None \/ x = Some(<<>>) THEN y ELSE x[1]

\* str(n) for a non-negative integer
Digit == <<"0", "1", "2", "3", "4", "5", "6", "7", "8", "9">>
RECURSIVE Str(_)
Str(n) == IF n < 10 THEN Digit[n + 1] ELSE Str(n \div 10) \o Digit[(n % 10) + 1]

\* substring test on a token string
Contains(msg, tok) == \E i \in 1..Len(msg) : msg[i] = tok

\* --------------------------------------------------------------- the store

BookRow(id) ==
    [id |-> id, storage_path |-> <<"path/", id>>, processing_status |-> "pending",
     page_count |-> None, error_message |-> None]

\* supabase.table('books').select(cols).eq('id', id): the rows, projected
SelectBooks(cols, id) ==
    IF id \in DOMAIN books THEN <<[c \in cols |-> books[id][c]] >> ELSE <<>>

AllColumns == {"id", "storage_path", "processing_status", "page_count", "error_message"}

\* update(fields).eq('id', id) on a table: the named columns of the row are
\* overwritten; no row, no change
UpdateRows(table, fields, id) ==
    IF id \in DOMAIN table
    THEN [table EXCEPT ![id] =
            [c \in DOMAIN table[id] |->
                IF c \in DOMAIN fields THEN fields[c] ELSE table[id][c]]]
    ELSE table

\* UpdateBooks with a guard on the status: a row that holds completed or failed
\* keeps it, the first run to end decides
UpdateBooks_FirstStatusStays(fields, id) ==
    IF /\ id \in DOMAIN books
       /\ "processing_status" \in DOMAIN fields
       /\ books[id]["processing_status"] \in {"completed", "failed"}
    THEN books
    ELSE UpdateRows(books, fields, id)

\* supabase.table('books').update(fields).eq('id', id)
UpdateBooks(fields, id) == UpdateRows(books, fields, id)

StoreError == <<"store unavailable">>

\* ------------------------------------------------------------------ tasks

ProcessTask(r) == <<"process_book", r>>
StatusTask(q) == <<"get_book_status", q>>

NoResult == [status |-> "none"]

NewRun ==
    [pc |-> "none", book_id |-> "", pdf_content |-> None, page_images |-> <<>>,
     page_num |-> 0, extracted_text |-> None, exc |-> None, result |-> NoResult,
     open |-> {}, calls |-> <<>>]

NewQuery ==
    [pc |-> "none", book_id |-> "", read_ok |-> FALSE, result |-> NoResult,
     response |-> NoResult]

Call(op, idx, ok) == [op |-> op, idx |-> idx, ok |-> ok]

\* no call of get_pdf_content on its own
NoFetch == [stage |-> "none"]

\* The frame of a task that ended: its locals are gone, what it did and
\* returned is kept.
Ended(run, pc, result) ==
    [NewRun EXCEPT !.pc = pc, !.book_id = run.book_id, !.result = result,
                   !.open = run.open, !.calls = run.calls]

Init ==
    /\ books = [id \in Existing |-> BookRow(id)]
    /\ book_contents = EmptyBag
    /\ queue = <<>>
    /\ running = {}
    /\ runs = [r \in JobIds |-> NewRun]
    /\ queries = [q \in QueryIds |-> NewQuery]
    /\ fetched = NoFetch

\* BookProcess.post: process_book.delay(str(book_id)), answered at once
PostProcess(r, id) ==
    /\ runs[r].pc = "none"
    /\ \A s \in JobIds : s < r => runs[s].pc # "none"
    /\ runs' = [runs EXCEPT ![r].pc = "queued", ![r].book_id = id]
    /\ queue' = Append(queue, ProcessTask(r))
    /\ UNCHANGED <<books, book_contents, running, queries, fetched>>

\* An idle worker of the pool takes the oldest message of the queue.
TakeTask ==
    /\ Cardinality(running) < Cardinality(Workers)
    /\ queue # <<>>
    /\ running' = running \cup {Head(queue)}
    /\ queue' = Tail(queue)
    /\ IF Head(queue)[1] = "process_book"
       THEN /\ runs' = [runs EXCEPT ![Head(queue)[2]].pc = "lookup"]
            /\ UNCHANGED queries
       ELSE /\ queries' = [queries EXCEPT ![Head(queue)[2]].pc = "select"]
            /\ UNCHANGED runs
    /\ UNCHANGED <<books, book_contents, fetched>>

\* BookStatus.get, first half: get_book_status.delay(str(book_id))
GetStatus(q, id) ==
    /\ queries[q].pc = "none"
    /\ \A s \in QueryIds : s < q => queries[s].pc # "none"
    /\ queries' = [queries EXCEPT ![q].pc = "queued", ![q].book_id = id]
    /\ queue' = Append(queue, StatusTask(q))
    /\ UNCHANGED <<books, book_contents, running, runs, fetched>>

\* ------------------------------------------------------------ process_book

Raise(run, msg) == [run EXCEPT !.pc = "except", !.exc = Some(msg)]

Logged(run, op, idx, ok) == [run EXCEPT !.calls = Append(@, Call(op, idx, ok))]

\* str(e) of the "not found" exception of line 228
NotFoundMessage(id) == <<"Book ", id, " not found">>

\* process_book, lines 226-229: load the book row
Lookup(r) ==
    LET run == runs[r] IN
    /\ run.pc = "lookup"
    /\ \E ok \in BOOLEAN :
         LET data == SelectBooks(AllColumns, run.book_id)
             run1 == Logged(run, "select", 0, ok) IN
         runs' = [runs EXCEPT ![r] =
                    IF ~ok THEN Raise(run1, StoreError)
                    ELSE IF data = <<>> THEN Raise(run1, NotFoundMessage(run.book_id))
                    ELSE [run1 EXCEPT !.pc = "fetch"]]
    /\ UNCHANGED <<books, book_contents, queue, running, queries, fetched>>

\* Bytes are their values 0..255, a bytes object is a sequence of them.
\* b'%PDF'
Signature == <<37, 80, 68, 70>>

\* content.startswith(b'%PDF')
StartsWithPdf(content) ==
    Len(content) >= Len(Signature) /\ SubSeq(content, 1, Len(Signature)) = Signature

\* the character of the base64 alphabet for a 6-bit value: A-Z a-z 0-9 + /
B64Char(v) ==
    IF v < 26 THEN 65 + v
    ELSE IF v < 52 THEN 97 + (v - 26)
    ELSE IF v < 62 THEN 48 + (v - 52)
    ELSE IF v = 62 THEN 43 ELSE 47

\* the 6-bit value of a character, 64 for a character outside the alphabet
B64Value(ch) ==
    IF ch >= 65 /\ ch <= 90 THEN ch - 65
    ELSE IF ch >= 97 /\ ch <= 122 THEN ch - 97 + 26
    ELSE IF ch >= 48 /\ ch <= 57 THEN ch - 48 + 52
    ELSE IF ch = 43 THEN 62
    ELSE IF ch = 47 THEN 63 ELSE 64

\* b'='
B64Pad == 61

\* base64.b64encode(s): three bytes give four characters, a last group of one
\* or two bytes is filled with zero bits and '='
RECURSIVE b64encode(_)
b64encode(s) ==
    IF Len(s) = 0 THEN <<>>
    ELSE IF Len(s) = 1
    THEN LET n == s[1] * 16 IN
         <<B64Char(n \div 64), B64Char(n % 64), B64Pad, B64Pad>>
    ELSE IF Len(s) = 2
    THEN LET n == (s[1] * 256 + s[2]) * 4 IN
         <<B64Char(n \div 4096), B64Char((n \div 64) % 64), B64Char(n % 64), B64Pad>>
    ELSE LET n == s[1] * 65536 + s[2] * 256 + s[3] IN
         <<B64Char(n \div 262144), B64Char((n \div 4096) % 64),
           B64Char((n \div 64) % 64), B64Char(n % 64)>>
         \o b64encode(SubSeq(s, 4, Len(s)))

\* The loop of binascii.a2b_base64 without strict mode, from position i on:
\* a character outside the alphabet is skipped, a pad sequence that completes
\* a group ends the input, a group left incomplete is binascii.Error (None).
RECURSIVE A2bLoop(_, _, _, _, _, _)
A2bLoop(s, i, quad_pos, leftchar, pads, out) ==
    IF i > Len(s)
    THEN IF quad_pos # 0 THEN None ELSE Some(out)
    ELSE IF s[i] = B64Pad
    THEN IF quad_pos >= 2 /\ quad_pos + pads + 1 >= 4
         THEN Some(out)
         ELSE A2bLoop(s, i + 1, quad_pos, leftchar,
                      IF quad_pos >= 2 THEN pads + 1 ELSE pads, out)
    ELSE LET this_ch == B64Value(s[i]) IN
         IF this_ch >= 64 THEN A2bLoop(s, i + 1, quad_pos, leftchar, pads, out)
         ELSE IF quad_pos = 0
         THEN A2bLoop(s, i + 1, 1, this_ch, 0, out)
         ELSE IF quad_pos = 1
         THEN A2bLoop(s, i + 1, 2, this_ch % 16, 0,
                      Append(out, leftchar * 4 + this_ch \div 16))
         ELSE IF quad_pos = 2
         THEN A2bLoop(s, i + 1, 3, this_ch % 4, 0,
                      Append(out, leftchar * 16 + this_ch \div 4))
         ELSE A2bLoop(s, i + 1, 0, 0, 0, Append(out, leftchar * 64 + this_ch))

\* base64.b64decode(content): the decoded bytes, or None for binascii.Error
B64Decode(content) == A2bLoop(content, 1, 0, 0, 0, <<>>)

\* The files the storage may hold: a PDF, a file that has the signature but
\* that the PDF library cannot open, and a text file ("hi").
PdfFile == Signature \o <<45, 49>>
BrokenPdfFile == Signature \o <<0>>
TextFile == <<104, 105>>
Bodies == {PdfFile, BrokenPdfFile, TextFile}

\* What the storage URL may answer: the transport's outcome and the payload,
\* a file as it is or wrapped in base64.
Payloads == Bodies \cup {b64encode(body) : body \in Bodies}
Responses == [net : {"ok", "error"}, content : Payloads]

\* The outcome of get_pdf_content: the bytes or the message of the ValueError,
\* and whether the base64 decoder was called.
Ok(v) == [ok |-> TRUE, value |-> v]
Err(msg) == [ok |-> FALSE, value |-> msg]
Decoded(outcome, decoded) == outcome @@ [decoded |-> decoded]

\* get_pdf_content that tries the decoder before it looks for the signature
get_pdf_content_DecodesFirst(resp) ==
    IF resp.net # "ok"
    THEN Decoded(Err(<<"Failed to download", " file: ", "request failed">>), FALSE)
    ELSE LET decoded == B64Decode(resp.content) IN
         IF decoded # None /\ StartsWithPdf(decoded[1]) THEN Decoded(Ok(decoded[1]), TRUE)
         ELSE IF StartsWithPdf(resp.content) THEN Decoded(Ok(resp.content), TRUE)
         ELSE Decoded(Err(<<"Error processing PDF: ", "Content is not valid Base64">>), TRUE)

\* get_pdf_content, lines 119-156
get_pdf_content(resp) ==
    IF resp.net # "ok"
    THEN Decoded(Err(<<"Failed to download", " file: ", "request failed">>), FALSE)
    ELSE IF StartsWithPdf(resp.content) THEN Decoded(Ok(resp.content), FALSE)
    ELSE LET decoded == B64Decode(resp.content) IN
         IF decoded = None
         THEN Decoded(Err(<<"Error processing PDF: ", "Content is not valid Base64">>), TRUE)
         ELSE IF StartsWithPdf(decoded[1]) THEN Decoded(Ok(decoded[1]), TRUE)
         ELSE Decoded(Err(<<"Error processing PDF: ", "Failed to decode content: ",
                            "Decoded content is not a PDF">>), TRUE)

\* process_book, lines 231-236: download the file
Fetch(r) ==
    LET run == runs[r] IN
    /\ run.pc = "fetch"
    /\ \E resp \in Responses :
         LET got == get_pdf_content(resp)
             run1 == Logged(run, "fetch", 0, got.ok) IN
         runs' = [runs EXCEPT ![r] =
                    IF got.ok
                    THEN [run1 EXCEPT !.pc = "render", !.pdf_content = Some(got.value)]
                    ELSE Raise(run1, got.value)]
    /\ UNCHANGED <<books, book_contents, queue, running, queries, fetched>>

\* The pages of 1..n that are not in bad, in order.
RECURSIVE GoodPages(_, _)
GoodPages(n, bad) ==
    IF n = 0 THEN <<>>
    ELSE IF n \in bad THEN GoodPages(n - 1, bad)
    ELSE Append(GoodPages(n - 1, bad), n)

\* extract_pdf_images, lines 159-197, on a container that reports n pages of
\* which those in bad fail to rasterize: the images, and the handles left open
extract_pdf_images(pdf_content, n, bad) ==
    IF pdf_content = BrokenPdfFile
    THEN [ok |-> FALSE, value |-> <<"cannot open broken document">>,
          open |-> {"render_buffer"}]
    ELSE [ok |-> TRUE, value |-> GoodPages(n, bad), open |-> {}]

\* process_book, lines 238-240: render the pages
Render(r) ==
    LET run == runs[r] IN
    /\ run.pc = "render"
    /\ \E n \in 0..MaxPages : \E bad \in SUBSET (1..n) :
         LET got == extract_pdf_images(run.pdf_content[1], n, bad)
             run1 == [Logged(run, "render", IF got.ok THEN Len(got.value) ELSE 0, got.ok)
                        EXCEPT !.open = @ \cup got.open] IN
         runs' = [runs EXCEPT ![r] =
                    IF got.ok
                    THEN [run1 EXCEPT !.pc = "page_count", !.page_images = got.value]
                    ELSE Raise(run1, got.value)]
    /\ UNCHANGED <<books, book_contents, queue, running, queries, fetched>>

\* LoopHead with range(len(page_images) - 1): the last page is left out
LoopHead_SkipsLastPage(run, page_num) ==
    IF page_num + 1 < Len(run.page_images)
    THEN [run EXCEPT !.pc = "extract", !.page_num = page_num]
    ELSE [run EXCEPT !.pc = "complete"]

\* the position after the head of the loop of line 261
LoopHead(run, page_num) ==
    IF page_num < Len(run.page_images)
    THEN [run EXCEPT !.pc = "extract", !.page_num = page_num]
    ELSE [run EXCEPT !.pc = "complete"]

\* process_book, lines 247-261: open the second handle, persist page_count.
\* The open of line 252 is of the bytes line 170 has opened, and succeeds.
UpdatePageCount(r) ==
    LET run == runs[r]
        page_count == Len(run.page_images) IN
    /\ run.pc = "page_count"
    /\ \E ok \in BOOLEAN :
         LET run1 == [Logged(run, "update_page_count", page_count, ok)
                        EXCEPT !.open = @ \cup {"pdf_buffer", "doc"}] IN
         /\ runs' = [runs EXCEPT ![r] =
                       IF ok THEN LoopHead(run1, 0) ELSE Raise(run1, StoreError)]
         /\ books' = IF ok
                     THEN UpdateBooks([page_count |-> Some(page_count)], run.book_id)
                     ELSE books
    /\ UNCHANGED <<book_contents, queue, running, queries, fetched>>

\* image_to_text, lines 20-65: the model's answer, or the sentinel text
image_to_text(image, api_ok) ==
    IF api_ok THEN <<"text of page ", Str(image)>>
    ELSE <<"Error extracting text: ", "api error">>

\* Extract in a loop that extracts the text of every page before it stores
\* any: the insert of a page waits for the extraction of the pages after it
Extract_AheadOfInsert(r) ==
    LET run == runs[r] IN
    /\ run.pc = "extract"
    /\ \E api_ok \in BOOLEAN :
         runs' = [runs EXCEPT ![r] =
                    [Logged(run, "extract", run.page_num, api_ok) EXCEPT
                        !.pc = IF run.page_num + 1 < Len(run.page_images)
                               THEN "extract" ELSE "insert",
                        !.page_num = IF run.page_num + 1 < Len(run.page_images)
                                     THEN run.page_num + 1 ELSE run.page_num,
                        !.extracted_text =
                            Some(image_to_text(run.page_images[run.page_num + 1], api_ok))]]
    /\ UNCHANGED <<books, book_contents, queue, running, queries, fetched>>

\* Extract with an image_to_text that lets the model's error out
Extract_RaisesOnApiError(r) ==
    LET run == runs[r] IN
    /\ run.pc = "extract"
    /\ \E api_ok \in BOOLEAN :
         runs' = [runs EXCEPT ![r] =
                    IF api_ok
                    THEN [Logged(run, "extract", run.page_num, api_ok) EXCEPT
                             !.pc = "insert",
                             !.extracted_text =
                                 Some(image_to_text(run.page_images[run.page_num + 1], api_ok))]
                    ELSE Raise(Logged(run, "extract", run.page_num, api_ok),
                               <<"api error">>)]
    /\ UNCHANGED <<books, book_contents, queue, running, queries, fetched>>

\* process_book, lines 262-264: one call to the vision model; the call is
\* recorded with whether the model answered
Extract(r) ==
    LET run == runs[r] IN
    /\ run.pc = "extract"
    /\ \E api_ok \in BOOLEAN :
         runs' = [runs EXCEPT ![r] =
                    [Logged(run, "extract", run.page_num, api_ok) EXCEPT
                        !.pc = "insert",
                        !.extracted_text =
                            Some(image_to_text(run.page_images[run.page_num + 1], api_ok))]]
    /\ UNCHANGED <<books, book_contents, queue, running, queries, fetched>>

\* the row of lines 267-273
ContentRow(book_id, extracted_text, page_num) ==
    [book_id |-> book_id, content_type |-> "markdown", content |-> extracted_text,
     chapter_index |-> page_num, chapter_title |-> <<"Page ", Str(page_num + 1)>>]

\* Insert as an upsert on (book_id, chapter_index): the rows the document has
\* for the page are replaced by the new one
Insert_Upserts(r) ==
    LET run == runs[r] IN
    /\ run.pc = "insert"
    /\ \E ok \in BOOLEAN :
         LET run1 == [Logged(run, "insert", run.page_num, ok)
                        EXCEPT !.extracted_text = None]
             kept == {row \in BagToSet(book_contents) :
                         row.book_id # run.book_id \/ row.chapter_index # run.page_num} IN
         /\ runs' = [runs EXCEPT ![r] =
                       IF ok THEN LoopHead(run1, run.page_num + 1)
                       ELSE Raise(run1, StoreError)]
         /\ book_contents' =
                IF ok
                THEN [row \in kept |-> book_contents[row]] (+)
                        SetToBag({ContentRow(run.book_id, run.extracted_text[1],
                                             run.page_num)})
                ELSE book_contents
    /\ UNCHANGED <<books, queue, running, queries, fetched>>

\* process_book, lines 266-275: store the page, go round the loop
Insert(r) ==
    LET run == runs[r] IN
    /\ run.pc = "insert"
    /\ \E ok \in BOOLEAN :
         LET run1 == [Logged(run, "insert", run.page_num, ok)
                        EXCEPT !.extracted_text = None] IN
         /\ runs' = [runs EXCEPT ![r] =
                       IF ok THEN LoopHead(run1, run.page_num + 1)
                       ELSE Raise(run1, StoreError)]
         /\ book_contents' =
                IF ok
                THEN book_contents (+)
                        SetToBag({ContentRow(run.book_id, run.extracted_text[1],
                                             run.page_num)})
                ELSE book_contents
    /\ UNCHANGED <<books, queue, running, queries, fetched>>

CompletedResult(book_id, page_count) ==
    [book_id |-> book_id, status |-> "completed",
     message |-> <<"Book processing completed successfully">>,
     page_count |-> page_count]

FailedResult(book_id, error_msg) ==
    [book_id |-> book_id, status |-> "failed",
     message |-> <<"Failed to process book: ">> \o error_msg]

\* UpdateCompleted with a statement that raises between the write of line 284
\* and the return of line 286
UpdateCompleted_RaisesAfterWrite(r) ==
    LET run == runs[r] IN
    /\ run.pc = "complete"
    /\ \E ok \in BOOLEAN :
         LET run1 == [Logged(run, "update_completed", 0, ok)
                        EXCEPT !.open = @ \ {"pdf_buffer", "doc"}] IN
         /\ runs' = [runs EXCEPT ![r] = Raise(run1, StoreError)]
         /\ books' = IF ok
                     THEN UpdateBooks([processing_status |-> "completed"], run.book_id)
                     ELSE books
    /\ UNCHANGED <<book_contents, queue, running, queries, fetched>>

\* UpdateCompleted with 'error_message': None in the update of line 282: the
\* cause of an earlier failure is reset on success
UpdateCompleted_ClearsError(r) ==
    LET run == runs[r] IN
    /\ run.pc = "complete"
    /\ \E ok \in BOOLEAN :
         LET run1 == [Logged(run, "update_completed", 0, ok)
                        EXCEPT !.open = @ \ {"pdf_buffer", "doc"}] IN
         /\ runs' = [runs EXCEPT ![r] =
                       IF ok
                       THEN Ended(run1, "done",
                                  CompletedResult(run.book_id, Len(run.page_images)))
                       ELSE Raise(run1, StoreError)]
         /\ books' = IF ok
                     THEN UpdateBooks([processing_status |-> "completed",
                                       error_message |-> None], run.book_id)
                     ELSE books
         /\ running' = IF ok THEN running \ {ProcessTask(r)} ELSE running
    /\ UNCHANGED <<book_contents, queue, queries, fetched>>

\* process_book, lines 277-291: close the handles, persist completed, return
UpdateCompleted(r) ==
    LET run == runs[r] IN
    /\ run.pc = "complete"
    /\ \E ok \in BOOLEAN :
         LET run1 == [Logged(run, "update_completed", 0, ok)
                        EXCEPT !.open = @ \ {"pdf_buffer", "doc"}] IN
         /\ runs' = [runs EXCEPT ![r] =
                       IF ok
                       THEN Ended(run1, "done",
                                  CompletedResult(run.book_id, Len(run.page_images)))
                       ELSE Raise(run1, StoreError)]
         /\ books' = IF ok
                     THEN UpdateBooks([processing_status |-> "completed"], run.book_id)
                     ELSE books
         /\ running' = IF ok THEN running \ {ProcessTask(r)} ELSE running
    /\ UNCHANGED <<book_contents, queue, queries, fetched>>

\* process_book, lines 293-306: the handler of every exception of the body
HandleException(r) ==
    LET run == runs[r]
        error_msg == run.exc[1] IN
    /\ run.pc = "except"
    /\ \E ok \in BOOLEAN :
         LET run1 == Logged(run, "update_failed", 0, ok) IN
         /\ runs' = [runs EXCEPT ![r] =
                       IF ok
                       THEN Ended(run1, "done", FailedResult(run.book_id, error_msg))
                       ELSE [run1 EXCEPT !.pc = "on_failure", !.exc = Some(StoreError)]]
         /\ books' = IF ok
                     THEN UpdateBooks([processing_status |-> "failed",
                                       error_message |-> Some(error_msg)], run.book_id)
                     ELSE books
         /\ running' = IF ok THEN running \ {ProcessTask(r)} ELSE running
    /\ UNCHANGED <<book_contents, queue, queries, fetched>>

\* isinstance(x, (str, UUID)): the ids of the model are strings
IsStrOrUuid(x) == x \in BookIds

\* on_failure_writes with isinstance(args[0], UUID): the argument is a str
on_failure_writes_UuidOnly(args) == Len(args) > 0 /\ args[1] \notin BookIds

\* BaseTask.on_failure, line 204: whether the hook issues its update
on_failure_writes(args) == Len(args) > 0 /\ IsStrOrUuid(args[1])

\* on_failure_fields with 'error_message': None added, a hook that resets the cause
on_failure_fields_ClearsError == [processing_status |-> "failed", error_message |-> None]

\* BaseTask.on_failure, lines 206-208: the columns the hook writes
on_failure_fields == [processing_status |-> "failed"]

\* OnFailure in a pool whose worker process dies with the exception: the
\* worker is not given back
OnFailure_WorkerLost(r) ==
    LET run == runs[r]
        args == <<run.book_id>> IN
    /\ run.pc = "on_failure"
    /\ \E ok \in BOOLEAN :
         LET writes == on_failure_writes(args)
             run1 == IF writes THEN Logged(run, "hook_failed", 0, ok) ELSE run IN
         /\ runs' = [runs EXCEPT ![r] = Ended(run1, "raised", NoResult)]
         /\ books' = IF writes /\ ok
                     THEN UpdateBooks(on_failure_fields, args[1])
                     ELSE books
    /\ UNCHANGED <<book_contents, queue, running, queries, fetched>>

\* BaseTask.on_failure, lines 203-210, called by the queue with the task's
\* arguments when process_book raised; its own update may raise too
OnFailure(r) ==
    LET run == runs[r]
        args == <<run.book_id>> IN
    /\ run.pc = "on_failure"
    /\ \E ok \in BOOLEAN :
         LET writes == on_failure_writes(args)
             run1 == IF writes THEN Logged(run, "hook_failed", 0, ok) ELSE run IN
         /\ runs' = [runs EXCEPT ![r] = Ended(run1, "raised", NoResult)]
         /\ books' = IF writes /\ ok
                     THEN UpdateBooks(on_failure_fields, args[1])
                     ELSE books
    /\ running' = running \ {ProcessTask(r)}
    /\ UNCHANGED <<book_contents, queue, queries, fetched>>

\* --------------------------------------------------------- get_book_status

StatusColumns == {"id", "processing_status", "page_count"}

\* get_book_status without the test of line 321: response.data[0] raises
\* IndexError on an empty answer, which the handler of line 335 turns into 'error'
get_book_status_NoEmptyTest(book_id, ok) ==
    LET data == SelectBooks(StatusColumns, book_id) IN
    IF ~ok \/ data = <<>>
    THEN [book_id |-> book_id, status |-> "error",
          message |-> <<"Failed to get book status: ", "list index out of range">>]
    ELSE [book_id |-> book_id, status |-> data[1]["processing_status"],
          message |-> Or(DictGet(data[1], "error_message"),
                         <<"Book processing status: ", data[1]["processing_status"]>>),
          page_count |-> DictGet(data[1], "page_count")]

\* get_book_status, lines 314-340, given whether the select raised
get_book_status(book_id, ok) ==
    IF ~ok
    THEN [book_id |-> book_id, status |-> "error",
          message |-> <<"Failed to get book status: ">> \o StoreError]
    ELSE LET data == SelectBooks(StatusColumns, book_id) IN
         IF data = <<>>
         THEN [book_id |-> book_id, status |-> "not_found",
               message |-> NotFoundMessage(book_id)]
         ELSE LET book == data[1] IN
              [book_id |-> book_id, status |-> book["processing_status"],
               message |-> Or(DictGet(book, "error_message"),
                              <<"Book processing status: ", book["processing_status"]>>),
               page_count |-> DictGet(book, "page_count")]

\* BookStatus.get, second half, lines 44-51: the answer built from the result
StatusResponse(book_id, result) ==
    [book_id |-> book_id, status |-> result.status, message |-> result.message]

\* a worker runs get_book_status; task.get() of BookStatus.get returns its result
StatusSelect(q) ==
    /\ queries[q].pc = "select"
    /\ \E ok \in BOOLEAN :
         LET result == get_book_status(queries[q].book_id, ok) IN
         queries' = [queries EXCEPT ![q] =
                       [@ EXCEPT !.pc = "done", !.read_ok = ok, !.result = result,
                                 !.response = StatusResponse(queries[q].book_id, result)]]
    /\ running' = running \ {StatusTask(q)}
    /\ UNCHANGED <<books, book_contents, queue, runs, fetched>>

\* one step of the worker pool
WorkerStep ==
    \/ TakeTask
    \/ \E r \in JobIds : Lookup(r)
    \/ \E r \in JobIds : Fetch(r)
    \/ \E r \in JobIds : Render(r)
    \/ \E r \in JobIds : UpdatePageCount(r)
    \/ \E r \in JobIds : Extract(r)
    \/ \E r \in JobIds : Insert(r)
    \/ \E r \in JobIds : UpdateCompleted(r)
    \/ \E r \in JobIds : HandleException(r)
    \/ \E r \in JobIds : OnFailure(r)
    \/ \E q \in QueryIds : StatusSelect(q)

Next ==
    \/ \E r \in JobIds, id \in BookIds : PostProcess(r, id)
    \/ \E q \in QueryIds, id \in BookIds : GetStatus(q, id)
    \/ WorkerStep

Spec == Init /\ [][Next]_vars

\* The pool keeps working: every call returns or raises, and an idle worker
\* takes the next message. Clients are free to stop submitting.
FairSpec == Spec /\ WF_vars(WorkerStep)

\* ------------------------------------------- get_pdf_content on its own

\* Longest file the storage holds in the checks of get_pdf_content.
MaxPayloadLen == 6

\* The bytes those files are made of: % P D F and =
FileBytes == {37, 80, 68, 70, 61}

Files == UNION {[1..n -> FileBytes] : n \in 0..MaxPayloadLen}

\* The storage answers with a file, as it is or wrapped in base64.
FetchInit ==
    /\ books = [id \in Existing |-> BookRow(id)]
    /\ book_contents = EmptyBag
    /\ queue = <<>>
    /\ running = {}
    /\ runs = [r \in JobIds |-> NewRun]
    /\ queries = [q \in QueryIds |-> NewQuery]
    /\ \E file \in Files, wrapped \in BOOLEAN :
         fetched = [stage |-> "request", file |-> file, wrapped |-> wrapped,
                    resp |-> [net |-> "ok",
                              content |-> IF wrapped THEN b64encode(file) ELSE file],
                    result |-> NoResult]

\* process_book, line 235, alone: pdf_content = get_pdf_content(doc_url)
FetchAlone ==
    /\ fetched.stage = "request"
    /\ fetched' = [fetched EXCEPT !.stage = "answered",
                                  !.result = get_pdf_content(fetched.resp)]
    /\ UNCHANGED <<books, book_contents, queue, running, runs, queries>>

FetchSpec == FetchInit /\ [][FetchAlone]_vars
\* ------------------------------------------------------------- properties

\* the positions of the calls of kind op in a run's record of calls
CallsOf(run, op) == {i \in 1..Len(run.calls) : run.calls[i].op = op}

\* the positions of the calls that succeeded
OkCallsOf(run, op) == {i \in CallsOf(run, op) : run.calls[i].ok}

StoreOps == {"select", "update_page_count", "insert", "update_completed",
             "update_failed", "hook_failed"}

NoStoreCallFailed(run) ==
    \A i \in 1..Len(run.calls) : run.calls[i].op \in StoreOps => run.calls[i].ok

\* the chapter_index values of the inserts a run made, in the order it made them
RECURSIVE InsertedIndexes(_)
InsertedIndexes(calls) ==
    IF calls = <<>> THEN <<>>
    ELSE IF Head(calls).op = "insert" /\ Head(calls).ok
         THEN <<Head(calls).idx>> \o InsertedIndexes(Tail(calls))
         ELSE InsertedIndexes(Tail(calls))

\* the number of page images the renderer gave a run (0 when it did not render)
Rendered(run) ==
    IF OkCallsOf(run, "render") = {} THEN 0
    ELSE run.calls[CHOOSE i \in OkCallsOf(run, "render") : TRUE].idx

HasRendered(run) == OkCallsOf(run, "render") # {}

Terminated(run) == run.pc \in {"done", "raised"}

\* "Page 1", "Page 2", ... written out
PageTitles == << <<"Page ", "1">>, <<"Page ", "2">>, <<"Page ", "3">>,
                 <<"Page ", "4">>, <<"Page ", "5">> >>

RowsOf(id, index) ==
    {row \in BagToSet(book_contents) : row.book_id = id /\ row.chapter_index = index}

C2_ProcessingWhileInFlight ==
    \A r \in JobIds :
       (runs[r].pc \in {"fetch", "render", "page_count", "extract", "insert", "complete"}
            /\ runs[r].book_id \in DOMAIN books)
       => books[runs[r].book_id]["processing_status"] = "processing"

\* the processing_status values a run wrote successfully, in order
RECURSIVE StatusWrites(_)
StatusWrites(calls) ==
    IF calls = <<>> THEN <<>>
    ELSE LET c == Head(calls)
             rest == StatusWrites(Tail(calls)) IN
         IF ~c.ok THEN rest
         ELSE IF c.op = "update_completed" THEN <<"completed">> \o rest
         ELSE IF c.op \in {"update_failed", "hook_failed"} THEN <<"failed">> \o rest
         ELSE rest

\* C3: once a run, its failure hook included, has written completed or failed,
\* it writes no other processing_status; never failed after completed.
C3_NoBackwardTransition ==
    \A r \in JobIds :
       LET w == StatusWrites(runs[r].calls) IN
       \A i, j \in 1..Len(w) : i < j => w[j] = w[i]

\* C3 witness: a run whose write of completed raised went on to write failed,
\* and ended.
C3_Witness ==
    \E r \in JobIds :
       /\ Terminated(runs[r])
       /\ CallsOf(runs[r], "update_completed") # {}
       /\ StatusWrites(runs[r].calls) = <<"failed">>

\* C4 (as claimed): a run whose renderer gave no image ends failed, and no run
\* writes page_count = 0 and then completed.
C4_ZeroPagesFails ==
    \A r \in JobIds :
       LET run == runs[r] IN
       /\ (Terminated(run) /\ HasRendered(run) /\ Rendered(run) = 0) =>
             /\ run.pc = "done"
             /\ run.result.status = "failed"
       /\ ~ \E i \in OkCallsOf(run, "update_page_count") :
             /\ run.calls[i].idx = 0
             /\ \E j \in OkCallsOf(run, "update_completed") : i < j

\* C5 (as claimed): no exception leaves process_book; a run that ended
\* returned a result with status completed or failed.
C5_NeverRaises ==
    \A r \in JobIds :
       /\ runs[r].pc \notin {"on_failure", "raised"}
       /\ runs[r].pc = "done" => runs[r].result.status \in {"completed", "failed"}

\* the lookup of the run answered, with no row
LookupMissed(run) ==
    /\ OkCallsOf(run, "select") # {}
    /\ run.book_id \notin DOMAIN books

\* C6 (as claimed): after a lookup that found no row the run makes no fetch, no
\* render, no page_count write and no insert, and it ends by returning a failed
\* result whose message holds the document id.
C6_LookupMissReturnsFailed ==
    \A r \in JobIds :
       LET run == runs[r] IN
       LookupMissed(run) =>
          /\ \A op \in {"fetch", "render", "update_page_count", "insert"} :
                CallsOf(run, op) = {}
          /\ Terminated(run) =>
                /\ run.pc = "done"
                /\ run.result.status = "failed"
                /\ Contains(run.result.message, run.book_id)

\* C7 (as claimed): a status query that reads a row holding failed and an
\* error_message answers failed with a message that holds that error_message.
C7_StatusMessageHasCause ==
    [][\A q \in QueryIds :
         LET id == queries[q].book_id IN
         (/\ queries[q].pc = "select" /\ queries'[q].pc = "done"
          /\ queries'[q].read_ok
          /\ id \in DOMAIN books
          /\ books[id]["processing_status"] = "failed"
          /\ books[id]["error_message"] # None)
         => /\ queries'[q].response.status = "failed"
            /\ \A i \in 1..Len(books[id]["error_message"][1]) :
                  Contains(queries'[q].response.message, books[id]["error_message"][1][i])]_vars

\* C8: a status query always ends with a result: not_found when the read
\* answered and the id has no row, error when the read raised.
C8_StatusQueryNeverRaises ==
    \A q \in QueryIds :
       LET qu == queries[q] IN
       qu.pc = "done" =>
          /\ qu.result.status # "none"
          /\ (qu.read_ok /\ qu.book_id \notin DOMAIN books) => qu.result.status = "not_found"
          /\ (qu.read_ok /\ qu.book_id \in DOMAIN books)
                => qu.result.status \in {"pending", "completed", "failed"}
          /\ ~qu.read_ok => qu.result.status = "error"
          /\ qu.response.status = qu.result.status

\* C8 witness: a query for an id without a row was answered not_found.
C8_Witness ==
    \E q \in QueryIds :
       /\ queries[q].pc = "done" /\ queries[q].read_ok
       /\ queries[q].book_id \notin DOMAIN books
       /\ queries[q].response.status = "not_found"

\* a status query sits in the queue while every worker executes a process_book
QueryWaitsForRun ==
    /\ \E q \in QueryIds : queries[q].pc = "queued"
    /\ Cardinality(running) = Cardinality(Workers)
    /\ \A t \in running : t[1] = "process_book"

\* C9 (as claimed): a status query never waits for a run, also when every
\* worker of the pool is busy with one.
C9_StatusQueryNeverWaits == ~QueryWaitsForRun

HookCall(run) == run.calls[Len(run.calls)]

\* C10 (as claimed): once an exception has left process_book on an existing
\* document, the persisted processing_status eventually is failed.
C10_EscapeLeadsToFailed ==
    \A r \in JobIds :
       (runs[r].pc = "on_failure" /\ runs[r].book_id \in DOMAIN books)
       ~> (\E id \in DOMAIN books :
              id = runs[r].book_id /\ books[id]["processing_status"] = "failed")

\* C10 (amended): when an exception has left process_book the hook runs and
\* issues its update for the task's first argument; if that update succeeds on
\* an existing document, the persisted processing_status is failed as the hook
\* ends, and in every case the hook leaves the other columns alone.
C10_HookMarksFailed ==
    [][\A r \in JobIds :
         (runs[r].pc = "on_failure" /\ runs'[r].pc # "on_failure") =>
            LET id == runs[r].book_id IN
            /\ runs'[r].pc = "raised"
            /\ Len(runs'[r].calls) = Len(runs[r].calls) + 1
            /\ HookCall(runs'[r]).op = "hook_failed"
            /\ (HookCall(runs'[r]).ok /\ id \in DOMAIN books) =>
                  /\ books'[id]["processing_status"] = "failed"
                  /\ \A c \in AllColumns \ {"processing_status"} :
                        books'[id][c] = books[id][c]
            /\ (~HookCall(runs'[r]).ok \/ id \notin DOMAIN books) => books' = books]_vars

\* C10 witness: a run ended by an exception and its hook marked the existing
\* document failed.
C10_Witness ==
    \E r \in JobIds :
       /\ runs[r].pc = "raised"
       /\ HookCall(runs[r]).op = "hook_failed" /\ HookCall(runs[r]).ok
       /\ runs[r].book_id \in DOMAIN books
       /\ books[runs[r].book_id]["processing_status"] = "failed"

\* C11: the failure hook applied to a record on which a handler has written
\* failed and an error_message leaves the whole table as it is (status failed,
\* error_message and page_count kept), and the hook's update applied once more
\* to what the hook left changes nothing.
C11_HookIdempotent ==
    [][\A r \in JobIds :
         LET id == runs[r].book_id IN
         (/\ runs[r].pc = "on_failure" /\ runs'[r].pc = "raised"
          /\ HookCall(runs'[r]).ok
          /\ id \in DOMAIN books)
         => /\ UpdateRows(books', on_failure_fields, id) = books'
            /\ (books[id]["processing_status"] = "failed"
                  /\ books[id]["error_message"] # None) => books' = books]_vars

\* C11 witness: a hook's update succeeded on a document that holds failed
\* together with the error_message a handler wrote.
C11_Witness ==
    \E r \in JobIds :
       /\ runs[r].pc = "raised"
       /\ HookCall(runs[r]).op = "hook_failed" /\ HookCall(runs[r]).ok
       /\ runs[r].book_id \in DOMAIN books
       /\ books[runs[r].book_id]["processing_status"] = "failed"
       /\ books[runs[r].book_id]["error_message"] # None
       /\ books[runs[r].book_id]["page_count"] # None

\* the text image_to_text returns for an extraction that failed starts with this
SentinelPrefix == "Error extracting text: "

\* C12: an extraction that fails raises nothing: the call gives a text and the
\* insert of the same page follows it; a run over N >= 1 rendered pages in which
\* no store call failed, whatever extractions failed, has written completed,
\* returns completed and has inserted N rows, the rows of the failed pages
\* holding the sentinel text.
C12_ExtractionFailureIsSoft ==
    \A r \in JobIds :
       LET run == runs[r]
           N == Rendered(run) IN
       /\ run.pc = "insert" => run.extracted_text # None
       /\ \A i \in CallsOf(run, "extract") :
             /\ i = Len(run.calls) => run.pc = "insert"
             /\ i < Len(run.calls) =>
                   /\ run.calls[i + 1].op = "insert"
                   /\ run.calls[i + 1].idx = run.calls[i].idx
       /\ (run.pc = "done" /\ N >= 1 /\ NoStoreCallFailed(run)) =>
             /\ run.result.status = "completed"
             /\ OkCallsOf(run, "update_completed") # {}
             /\ Len(InsertedIndexes(run.calls)) = N
             /\ \A i \in CallsOf(run, "extract") :
                   ~run.calls[i].ok =>
                      \E row \in RowsOf(run.book_id, run.calls[i].idx) :
                         row.content[1] = SentinelPrefix

\* C12 witness: a run over the largest document, every extraction of which
\* failed, completed.
C12_Witness ==
    \E r \in JobIds :
       /\ runs[r].pc = "done" /\ runs[r].result.status = "completed"
       /\ NoStoreCallFailed(runs[r])
       /\ Rendered(runs[r]) = MaxPages
       /\ Cardinality(CallsOf(runs[r], "extract")) = MaxPages
       /\ OkCallsOf(runs[r], "extract") = {}

\* the position of the first insert of a run that raised, 0 when there is none
FailedInsert(run) ==
    LET failed == CallsOf(run, "insert") \ OkCallsOf(run, "insert") IN
    IF failed = {} THEN 0 ELSE CHOOSE i \in failed : \A j \in failed : i <= j

\* C13 (as claimed): after the insert of page k raised, the run makes no
\* extraction and no insert any more, writes failed with the cause as
\* error_message and returns a failed result holding the cause; the rows of
\* pages 0..k-1 and page_count = N stay.
C13_InsertFailureStopsRun ==
    \A r \in JobIds :
       LET run == runs[r]
           f == FailedInsert(run) IN
       f # 0 =>
          LET k == run.calls[f].idx IN
          /\ \A i \in (f + 1)..Len(run.calls) :
                run.calls[i].op \notin {"extract", "insert"}
          /\ InsertedIndexes(run.calls) = [i \in 1..k |-> i - 1]
          /\ \A j \in 0..(k - 1) : RowsOf(run.book_id, j) # {}
          /\ books[run.book_id]["page_count"] # None
          /\ Terminated(run) =>
                /\ run.pc = "done"
                /\ run.result.status = "failed"
                /\ run.result = FailedResult(run.book_id, StoreError)
                /\ OkCallsOf(run, "update_failed") # {}

\* C14 (as claimed): every submitted job on an existing document eventually has
\* ended with the persisted processing_status completed or failed.
C14_JobLeavesTerminalStatus ==
    \A r \in JobIds :
       (runs[r].pc = "queued" /\ runs[r].book_id \in DOMAIN books)
       ~> (/\ Terminated(runs[r])
           /\ \E id \in DOMAIN books :
                 /\ id = runs[r].book_id
                 /\ books[id]["processing_status"] \in {"completed", "failed"})

\* C14 (amended): every submitted task, job or status query, is eventually
\* taken and ends, by a returned result or by an exception given to the hook,
\* whatever the runs before it did; and a document on which a run or its
\* hook has written a status holds completed or failed from then on.
C14_WorkerKeepsGoing ==
    /\ \A r \in JobIds : (runs[r].pc = "queued") ~> Terminated(runs[r])
    /\ \A q \in QueryIds : (queries[q].pc = "queued") ~> (queries[q].pc = "done")
    /\ [](\A r \in JobIds :
            (StatusWrites(runs[r].calls) # <<>> /\ runs[r].book_id \in DOMAIN books)
            => books[runs[r].book_id]["processing_status"] \in {"completed", "failed"})

\* C14 witness: a run has ended by an exception and every worker of the pool
\* is executing a task again.
C14_Witness ==
    /\ \E r \in JobIds : runs[r].pc = "raised"
    /\ Cardinality(running) = Cardinality(Workers)

\* C15: for every file P that starts with %PDF, fetching P returns P and the
\* base64 decoder is not called, and fetching base64(P) returns P byte for
\* byte; a payload of which neither the bytes nor their base64 decoding start
\* with %PDF makes the fetch fail.
C15_FetchRoundTrip ==
    fetched.stage = "answered" =>
       LET P == fetched.file
           content == fetched.resp.content
           result == fetched.result
           decoding == B64Decode(content) IN
       /\ (StartsWithPdf(P) /\ ~fetched.wrapped) =>
             /\ content = P
             /\ result.ok /\ result.value = P
             /\ ~result.decoded
       /\ (StartsWithPdf(P) /\ fetched.wrapped) =>
             /\ content = b64encode(P)
             /\ result.ok /\ result.value = P
       /\ (~StartsWithPdf(content)
             /\ (decoding = None \/ ~StartsWithPdf(decoding[1]))) => ~result.ok

\* C15 witness: the base64 wrapping of a PDF of the greatest length was
\* fetched and gave the PDF back.
C15_Witness ==
    /\ fetched.stage = "answered"
    /\ fetched.wrapped
    /\ StartsWithPdf(fetched.file) /\ Len(fetched.file) = MaxPayloadLen
    /\ fetched.resp.content # fetched.file
    /\ fetched.result.ok /\ fetched.result.value = fetched.file

\* C16 (as claimed): once extract_pdf_images has returned or raised, the
\* buffer and the document handle it opened are closed.
C16_RendererReleasesHandles ==
    \A r \in JobIds :
       CallsOf(runs[r], "render") # {} =>
          runs[r].open \cap {"render_buffer", "render_doc"} = {}

\* the extraction calls of a run that no insert of the same page has followed
PendingExtractions(run) ==
    {i \in CallsOf(run, "extract") :
        ~ \E j \in CallsOf(run, "insert") : j > i /\ run.calls[j].idx = run.calls[i].idx}

\* C17: within a run the calls of the page loop alternate: the extraction of
\* page 0 follows the page_count write, the extraction of page i+1 follows at
\* once the insert of page i, which has returned, every insert follows at once
\* the extraction of its own page, at most one extraction is not yet followed
\* by its insert, and the run's inserts are in increasing chapter_index order.
C17_PageLoopSequential ==
    \A r \in JobIds :
       LET run == runs[r]
           c == run.calls
           w == InsertedIndexes(c) IN
       /\ \A i \in CallsOf(run, "extract") :
             /\ i > 1
             /\ c[i].idx = 0 => (c[i - 1].op = "update_page_count" /\ c[i - 1].ok)
             /\ c[i].idx > 0 =>
                   /\ c[i - 1].op = "insert" /\ c[i - 1].ok
                   /\ c[i - 1].idx = c[i].idx - 1
       /\ \A i \in CallsOf(run, "insert") :
             /\ i > 1
             /\ c[i - 1].op = "extract" /\ c[i - 1].idx = c[i].idx
       /\ Cardinality(PendingExtractions(run)) <= 1
       /\ run.pc = "extract" => PendingExtractions(run) = {}
       /\ \A a, b \in 1..Len(w) : a < b => w[a] < w[b]

\* C17 witness: the extraction of the last page of the largest document has
\* returned, after the insert of the page before it, and its insert is next.
C17_Witness ==
    \E r \in JobIds :
       /\ runs[r].pc = "insert"
       /\ runs[r].page_num = MaxPages - 1 /\ MaxPages >= 2
       /\ InsertedIndexes(runs[r].calls) = [i \in 1..(MaxPages - 1) |-> i - 1]
       /\ Cardinality(CallsOf(runs[r], "extract")) = MaxPages

\* C18: nothing holds back a status write of a run because of another run on
\* the same document: every status write that succeeds becomes the persisted
\* processing_status at once, whatever the row held and whatever the other
\* runs are doing, so the persisted status is that of the last such write.
C18_LastStatusWriteWins ==
    [][\A r \in JobIds :
         LET before == StatusWrites(runs[r].calls)
             after == StatusWrites(runs'[r].calls)
             id == runs[r].book_id IN
         (Len(after) > Len(before) /\ id \in DOMAIN books)
         => books'[id]["processing_status"] = after[Len(after)]]_vars

\* C18 witness: the second job on a document, taken after the first, returned
\* completed, and the persisted status is failed, written by the first job:
\* the first job wrote its status after the second had ended.
C18_Witness ==
    /\ MaxJobs >= 2
    /\ runs[1].book_id = runs[2].book_id /\ runs[1].book_id \in DOMAIN books
    /\ runs[2].pc = "done" /\ runs[2].result.status = "completed"
    /\ Terminated(runs[1]) /\ StatusWrites(runs[1].calls) = <<"failed">>
    /\ \A r \in JobIds \ {1, 2} : StatusWrites(runs[r].calls) = <<>>
    /\ books[runs[1].book_id]["processing_status"] = "failed"

\* the number of rows of book_contents a document has for a chapter_index
RowCount(id, index) ==
    LET rows == RowsOf(id, index) IN
    IF rows = {} THEN 0 ELSE BagCardinality([row \in rows |-> book_contents[row]])

\* the number of rows of book_contents a document has
RowTotal(id) ==
    LET rows == {row \in BagToSet(book_contents) : row.book_id = id} IN
    IF rows = {} THEN 0 ELSE BagCardinality([row \in rows |-> book_contents[row]])

\* the number of inserts for a chapter_index that succeeded, over all runs on a document
RECURSIVE InsertCount(_, _, _)
InsertCount(n, id, index) ==
    IF n = 0 THEN 0
    ELSE InsertCount(n - 1, id, index)
         + (IF runs[n].book_id = id
            THEN Cardinality({i \in OkCallsOf(runs[n], "insert") : runs[n].calls[i].idx = index})
            ELSE 0)

\* the runs that were taken for a document
RunsOn(id) == {r \in JobIds : runs[r].book_id = id /\ runs[r].calls # <<>>}

\* C19: no step removes or changes a row of book_contents: every row keeps at
\* least the copies it had. The rows a document has for a chapter_index are as
\* many as the inserts for it that succeeded; so when the runs on a document
\* are k runs that each completed with N rendered pages, the document has k
\* rows for each chapter_index in 0..N-1, k*N in all.
C19_ContentOnlyGrows ==
    /\ [][\A row \in BagToSet(book_contents) :
            /\ row \in BagToSet(book_contents')
            /\ CopiesIn(row, book_contents') >= CopiesIn(row, book_contents)]_vars
    /\ [](\A id \in BookIds :
            /\ \A index \in 0..MaxPages :
                  RowCount(id, index) = InsertCount(MaxJobs, id, index)
            /\ \A N \in 1..MaxPages :
                  (\A r \in RunsOn(id) :
                      /\ runs[r].pc = "done" /\ runs[r].result.status = "completed"
                      /\ Rendered(runs[r]) = N)
                  => /\ \A index \in 0..(N - 1) :
                           RowCount(id, index) = Cardinality(RunsOn(id))
                     /\ \A index \in N..MaxPages : RowCount(id, index) = 0
                     /\ RowTotal(id) = Cardinality(RunsOn(id)) * N)

\* C19 witness: two runs completed on the largest document, which has two rows
\* for every page.
C19_Witness ==
    \E id \in DOMAIN books :
       /\ Cardinality(RunsOn(id)) >= 2
       /\ \A r \in RunsOn(id) :
             /\ runs[r].pc = "done" /\ runs[r].result.status = "completed"
             /\ Rendered(runs[r]) = MaxPages
       /\ \A index \in 0..(MaxPages - 1) : RowCount(id, index) = Cardinality(RunsOn(id))

\* every column of every row of books other than column col of row id is as it was
OnlyColumnWritten(id, col) ==
    /\ DOMAIN books' = DOMAIN books
    /\ \A b \in DOMAIN books : \A c \in AllColumns :
          (b # id \/ c # col) => books'[b][c] = books[b][c]

\* C20: the page_count write changes no column but page_count and the
\* completed write no column but processing_status; a run that returns
\* completed leaves the document with processing_status completed and the
\* error_message it had, an earlier run's cause included.
C20_SuccessKeepsErrorMessage ==
    [][\A r \in JobIds :
         LET id == runs[r].book_id IN
         /\ (runs[r].pc = "page_count" /\ runs'[r].pc # "page_count")
               => OnlyColumnWritten(id, "page_count")
         /\ (runs[r].pc = "complete" /\ runs'[r].pc # "complete")
               => OnlyColumnWritten(id, "processing_status")
         /\ (runs[r].pc = "complete" /\ runs'[r].pc = "done") =>
               /\ runs'[r].result.status = "completed"
               /\ books'[id]["processing_status"] = "completed"
               /\ books'[id]["error_message"] = books[id]["error_message"]]_vars

\* C20 witness: a run returned failed on a document, another returned
\* completed on it, and the document holds completed together with the cause
\* the failed run wrote.
C20_Witness ==
    \E r1, r2 \in JobIds :
       LET id == runs[r1].book_id IN
       /\ r1 # r2 /\ runs[r2].book_id = id /\ id \in DOMAIN books
       /\ runs[r1].pc = "done" /\ runs[r1].result.status = "failed"
       /\ runs[r2].pc = "done" /\ runs[r2].result.status = "completed"
       /\ books[id]["processing_status"] = "completed"
       /\ books[id]["error_message"] # None
       /\ runs[r1].result.message = <<"Failed to process book: ">> \o books[id]["error_message"][1]

\* C21 (as claimed): whenever process_book has returned, with status completed
\* or failed, the buffer and the document handle it opened at lines 251-252
\* are closed.
C21_RunReleasesHandles ==
    \A r \in JobIds :
       (runs[r].pc = "done" /\ runs[r].result.status \in {"completed", "failed"})
       => runs[r].open \cap {"pdf_buffer", "doc"} = {}
====
